---- MODULE Spec2Model ----
(***************************************************************************)
(* The day-by-day protective-put backtest of                               *)
(* src/src/strategy/pandas_backtest.py (backtest_option_strategy and its   *)
(* pricer estimate_put_option_price) as a state machine.                   *)
(*                                                                         *)
(* Money is counted in ticks of 1/10000 dollar, volatility in VIX points   *)
(* (sigma = vix/100), probabilities in percent, time to expiry in trading  *)
(* days (T = days/252).  A DataFrame row index t (0-based) is element t+1  *)
(* of the sequence `strategy`.                                             *)
(***************************************************************************)
EXTENDS Integers, Sequences, FiniteSets, TLC

\* ------------------------------------------------------------------ bounds

\* Longest input series explored with freely chosen probabilities.
MaxDays == 4

\* Largest option_expiry_days explored (0 .. MaxExpiry).
MaxExpiry == 3

\* Most calls of the pricer on its own that are compared with each other.
MaxQuotes == 3

\* Daily observations the input series are drawn from.
Prices == {800000, 1000000}
VixValues == {30, 60}
Probs == {30, 50, 60}

\* The probability series of the scenario of spec section 8
\* ([0.2, 0.6, 0.6, 0.3, 0.3, 0.3]); it is explored besides the free series.
ScenarioProbs == <<20, 60, 60, 30, 30, 30>>

\* ------------------------------------------------------- program constants

\* threshold=0.5, in percent.
threshold == 50

\* strike_pct=0.95, in percent.
strike_pct == 95

\* option_coverage = 1.0.
option_coverage == 1

\* np.nan, the initial value of strike_price, option_price and option_cost;
\* every price the run computes is >= 0.
NaN == -1

\* ------------------------------------------------------------------ pricer

(***************************************************************************)
(* The closed form of estimate_put_option_price,                           *)
(*   d1  = (ln(S/K) + (r - q + sigma^2/2) T) / (sigma sqrt(T))             *)
(*   d2  = d1 - sigma sqrt(T)                                              *)
(*   put = K e^(-rT) Phi(-d2) - S e^(-qT) Phi(-d1)                         *)
(* with r = 0.02 (risk_free_rate) and q = 0, evaluated in double precision *)
(* and rounded to the nearest tick, tabulated for every spot in Prices     *)
(* (and the spot 90 between them, at the 0.95 strikes),                     *)
(* every strike 0.95 * Prices and 1.0 * Prices, sigma = vix/100 for vix    *)
(* 0, 30, 60 and (at the 0.95 strikes) 500, and T = 0..5 days (entry       *)
(* <<S, K, vix>>, position days+1).                                        *)
(* When sigma sqrt(T) = 0 the quotient is +-infinity in IEEE arithmetic    *)
(* (numpy scalars: a warning, no exception), which gives 0 for a positive  *)
(* numerator and K e^(-rT) - S for a negative one; it is 0/0 = nan for     *)
(* S = K at T = 0.  Rounding keeps the order of every pair of values the   *)
(* day loop compares (an entry cost against a later mark-to-market value)  *)
(* in the runs explored.                                                   *)
(***************************************************************************)
PutTable ==
   <<800000, 760000, 0>> :> <<0, 0, 0, 0, 0, 0>> @@
   <<800000, 760000, 30>> :> <<0, 15, 216, 630, 1165, 1762>> @@
   <<800000, 760000, 60>> :> <<0, 1181, 3726, 6274, 8666, 10900>> @@
   <<800000, 760000, 500>> :> <<0, 78858, 118301, 148297, 173303, 195074>> @@
   <<800000, 800000, 0>> :> <<NaN, 0, 0, 0, 0, 0>> @@
   <<800000, 800000, 30>> :> <<NaN, 5999, 8465, 10350, 11934, 13325>> @@
   <<800000, 800000, 60>> :> <<NaN, 12030, 16993, 20792, 23989, 26802>> @@
   <<800000, 950000, 0>> :> <<150000, 149925, 149849, 149774, 149698, 149623>> @@
   <<800000, 950000, 30>> :> <<150000, 149925, 149849, 149774, 149698, 149623>> @@
   <<800000, 950000, 60>> :> <<150000, 149925, 149857, 149852, 149962, 150202>> @@
   <<800000, 950000, 500>> :> <<150000, 200164, 240221, 271938, 298811, 322414>> @@
   <<800000, 1000000, 0>> :> <<200000, 199921, 199841, 199762, 199683, 199603>> @@
   <<800000, 1000000, 30>> :> <<200000, 199921, 199841, 199762, 199683, 199603>> @@
   <<800000, 1000000, 60>> :> <<200000, 199921, 199841, 199767, 199714, 199702>> @@
   <<900000, 760000, 0>> :> <<0, 0, 0, 0, 0, 0>> @@
   <<900000, 760000, 30>> :> <<0, 0, 0, 0, 0, 0>> @@
   <<900000, 760000, 60>> :> <<0, 0, 9, 83, 272, 585>> @@
   <<900000, 760000, 500>> :> <<0, 48295, 86442, 116607, 142150, 164579>> @@
   <<900000, 950000, 0>> :> <<50000, 49925, 49849, 49774, 49698, 49623>> @@
   <<900000, 950000, 30>> :> <<50000, 49936, 50050, 50407, 50919, 51518>> @@
   <<900000, 950000, 60>> :> <<50000, 51128, 53899, 56766, 59494, 62061>> @@
   <<900000, 950000, 500>> :> <<50000, 142391, 189110, 224655, 254291, 280095>> @@
   <<1000000, 760000, 0>> :> <<0, 0, 0, 0, 0, 0>> @@
   <<1000000, 760000, 30>> :> <<0, 0, 0, 0, 0, 0>> @@
   <<1000000, 760000, 60>> :> <<0, 0, 0, 0, 2, 11>> @@
   <<1000000, 760000, 500>> :> <<0, 28825, 62906, 91792, 116949, 139381>> @@
   <<1000000, 800000, 0>> :> <<0, 0, 0, 0, 0, 0>> @@
   <<1000000, 800000, 30>> :> <<0, 0, 0, 0, 0, 0>> @@
   <<1000000, 800000, 60>> :> <<0, 0, 0, 5, 30, 96>> @@
   <<1000000, 950000, 0>> :> <<0, 0, 0, 0, 0, 0>> @@
   <<1000000, 950000, 30>> :> <<0, 18, 270, 787, 1456, 2202>> @@
   <<1000000, 950000, 60>> :> <<0, 1477, 4657, 7842, 10832, 13625>> @@
   <<1000000, 950000, 500>> :> <<0, 98572, 147876, 185371, 216629, 243843>> @@
   <<1000000, 1000000, 0>> :> <<NaN, 0, 0, 0, 0, 0>> @@
   <<1000000, 1000000, 30>> :> <<NaN, 7499, 10582, 12938, 14917, 16656>> @@
   <<1000000, 1000000, 60>> :> <<NaN, 15037, 21241, 25990, 29987, 33502>>

\* Mutant: the forward S - K is added to the put price (a call, by parity at
\* r = 0).
estimate_put_option_price_Forward(S, K, days, vixv) ==
  PutTable[<<S, K, vixv>>][days + 1] + (S - K)

\* estimate_put_option_price(S, K, T = days/252, r = 0.02, sigma = vix/100).
estimate_put_option_price(S, K, days, vixv) == PutTable[<<S, K, vixv>>][days + 1]

\* ------------------------------------------------------------------- state

VARIABLES
  num_days,             \* len(strategy), the number of input days
  option_expiry_days,   \* the option_expiry_days argument
  model_probs,          \* the model_probs argument (percent)
  args,                 \* threshold, strike_pct and the values vix_values takes
  strategy,             \* rows 0 .. i-1 of the DataFrame, as written so far
  i,                    \* the day loop's index
  active_option,        \* the loop's locals, lines 90-94 and 172
  option_start_idx,
  option_expiry_idx,
  strike_price,
  entry_option_price,
  option_cost,
  pricer_calls,         \* every call of the pricer: <<day index, T in days>>
  previous,             \* what an earlier call on the same arguments returned
  quotes,               \* the pricer called on its own: arguments and prices
  summary,              \* the performance metrics of lines 236-265
  pc                    \* "loop" (lines 96-187) or "done" (after line 265)

vars == <<num_days, option_expiry_days, model_probs, args, strategy, i, active_option,
          option_start_idx, option_expiry_idx, strike_price, entry_option_price,
          option_cost, pricer_calls, previous, quotes, summary, pc>>

locals == <<active_option, option_start_idx, option_expiry_idx, strike_price,
            entry_option_price, option_cost>>

inputs == <<num_days, option_expiry_days, model_probs, args>>

Max(a, b) == IF a >= b THEN a ELSE b

\* Mutant: the signal needs a probability strictly above the threshold.
signal_of_Strict(prob) == IF prob > threshold THEN 1 ELSE 0

\* 'signal': (model_probs >= threshold).astype(int)
signal_of(prob) == IF prob >= args.threshold THEN 1 ELSE 0

\* Row i as the DataFrame's construction leaves it (lines 65-87).  The price
\* and vix columns are read-only inputs whose row i is first read by
\* iteration i, so the row's observation is drawn when the loop reaches it.
NewRow(price, vixv, prob) ==
  [ spy_price |-> price, vix |-> vixv, prob |-> prob,
    signal |-> signal_of(prob), stock_balance |-> price,
    has_active_option |-> FALSE, option_start_idx |-> -1,
    option_expiry_idx |-> -1, strike_price |-> NaN, option_price |-> NaN,
    option_cost |-> NaN, option_balance |-> 0, cash_balance |-> 0,
    exit_type |-> "", strategy_balance |-> 0,
    cum_strategy_dollar_return |-> 0 ]

\* Mutant: the previous day's cash is not carried forward.
CarryCash_Dropped(row) == row

\* if i > 0: cash_balance[i] = cash_balance[i-1]
CarryCash(row) ==
  IF i > 0 THEN [row EXCEPT !.cash_balance = strategy[i].cash_balance] ELSE row

\* The row an iteration starts from.
StartRow(price, vixv) == CarryCash(NewRow(price, vixv, model_probs[i + 1]))

\* Mutant: the strike follows the spot of the day being marked.
MarkActive_Restrike(row) ==
  [row EXCEPT !.has_active_option = TRUE,
              !.option_start_idx = option_start_idx,
              !.option_expiry_idx = option_expiry_idx,
              !.strike_price = (row.spy_price * strike_pct) \div 100,
              !.option_cost = option_cost]

\* Mutant: the day is not flagged as having an active option.
MarkActive_Unflagged(row) ==
  [row EXCEPT !.option_start_idx = option_start_idx,
              !.option_expiry_idx = option_expiry_idx,
              !.strike_price = strike_price,
              !.option_cost = option_cost]

\* Lines 108-112: mark the day as having an active option.
MarkActive(row) ==
  [row EXCEPT !.has_active_option = TRUE,
              !.option_start_idx = option_start_idx,
              !.option_expiry_idx = option_expiry_idx,
              !.strike_price = strike_price,
              !.option_cost = option_cost]

\* remaining_days = option_expiry_idx - i
remaining_days == option_expiry_idx - i

\* Mutant: the expiry day itself still counts as having time value.
has_time_value_AtExpiry(remaining) == remaining >= 0

\* if remaining_days > 0
has_time_value(remaining) == remaining > 0

\* The mark-to-market price of the active option on day i.
current_option_price(price, vixv) ==
  estimate_put_option_price(price, strike_price, remaining_days, vixv)

\* Mutant: the mark-to-market price is recorded but not the option balance.
MarkToMarket_PriceOnly(row, price, vixv) ==
  IF remaining_days > 0
  THEN [row EXCEPT !.option_price =
          estimate_put_option_price(price, strike_price, remaining_days, vixv)]
  ELSE row

\* Lines 116-131: price the option and record its value while it has time value.
MarkToMarket(row, price, vixv) ==
  IF has_time_value(remaining_days)
  THEN [row EXCEPT !.option_price = current_option_price(price, vixv),
                   !.option_balance = current_option_price(price, vixv) * option_coverage]
  ELSE row

\* Mutant: the threshold exit does not require a profit.
should_exit_NoProfitTest(prob, cur, cost) == prob < threshold

\* if current_prob < threshold and current_option_price > option_cost
should_exit(prob, cur, cost) == prob < args.threshold /\ cur > cost

\* The threshold exit of lines 133-140 is taken on day i.
ExitsOnThreshold(price, vixv) ==
  /\ has_time_value(remaining_days)
  /\ should_exit(model_probs[i + 1], current_option_price(price, vixv), option_cost)

\* Mutant: an exit leaves the flag as it was.
after_exit_Unchanged(active) == active

\* active_option = False (lines 139 and 154): the flag after an exit.
after_exit(active) == FALSE

\* if i == option_expiry_idx
is_expiring(idx, expiry_idx) == idx = expiry_idx

\* Mutant: the payoff of a call instead of a put.
payoff_at_expiry_Call(strike, price) == Max(0, price - strike)

\* payoff = max(0, strike_price - current_price)
payoff_at_expiry(strike, price) == Max(0, strike - price)

\* strike_price = current_price * strike_pct
strike_of(price) == (price * args.strike_pct) \div 100

\* Mutant: the expiry index is one day late.
expiry_idx_of_Late(idx, days) == idx + days + 1

\* option_expiry_idx = i + option_expiry_days
expiry_idx_of(idx, days) == idx + days

\* The pricer calls made so far, with the mark-to-market call of day i added
\* when the option has time value.
WithMarkCall ==
  IF has_time_value(remaining_days)
  THEN Append(pricer_calls, <<i, remaining_days>>)
  ELSE pricer_calls

\* Mutant: the day's writes also clear the previous row's option balance.
WriteRow_TouchesPrevious(rows, idx, row) ==
  Append([t \in 1..Len(rows) |->
            IF t = idx THEN [rows[t] EXCEPT !.option_balance = 0] ELSE rows[t]],
         row)

\* The writes strategy.iloc[idx, ...] = ... of one iteration: they make row
\* idx, the first row not yet written, and touch no other row.
WriteRow(rows, idx, row) ==
  IF idx = Len(rows) THEN Append(rows, row) ELSE [rows EXCEPT ![idx + 1] = row]

\* Mutant: the loop steps over every other day.
next_index_Skip(idx) == idx + 2

\* for i in range(len(strategy)): the index after idx.
next_index(idx) == idx + 1

\* The metrics before they are computed.
NoSummary ==
  [ total_periods |-> 0, option_periods |-> 0, option_entries |-> 0,
    expiry_exits |-> 0, threshold_exits |-> 0, still_active |-> 0,
    strategy_volatility |-> "nan", benchmark_volatility |-> "nan",
    strategy_sharpe |-> [value |-> "zero"], benchmark_sharpe |-> [value |-> "zero"],
    strategy_max_drawdown_duration |-> 0,
    benchmark_max_drawdown_duration |-> 0 ]

\* -------------------------------------------------------------------- Init

\* The input series: every probability series of 1 .. MaxDays days over
\* Probs, and the scenario series; every tenor 0 .. MaxExpiry.
\* The defaults of line 30 and a vix_values series of positive values.
DefaultArgs ==
  [threshold |-> threshold, strike_pct |-> strike_pct, vix_values |-> VixValues]

\* No earlier call.
NoRun == [rows |-> <<>>, summary |-> NoSummary]

\* The spy_prices and vix_values arguments at day idx: any of the modelled
\* values on a first call, the same value again when the call is repeated on
\* the same arguments.
spy_prices(idx) ==
  IF previous = NoRun THEN Prices ELSE { previous.rows[idx + 1].spy_price }

vix_values(idx) ==
  IF previous = NoRun THEN args.vix_values ELSE { previous.rows[idx + 1].vix }

ProbSeries ==
  UNION { [1..len -> Probs] : len \in 1..MaxDays } \cup {ScenarioProbs}

Init ==
  /\ model_probs \in ProbSeries
  /\ num_days = Len(model_probs)
  /\ option_expiry_days \in 0..MaxExpiry
  /\ args = DefaultArgs
  /\ strategy = <<>>
  /\ i = 0
  /\ active_option = FALSE
  /\ option_start_idx = -1
  /\ option_expiry_idx = -1
  /\ strike_price = NaN
  /\ entry_option_price = NaN
  /\ option_cost = NaN
  /\ pricer_calls = <<>>
  /\ previous = NoRun
  /\ quotes = <<>>
  /\ summary = NoSummary
  /\ pc = "loop"

\* Crash probabilities no model can give: 1.5 and -0.1.
InvalidProbs == {150, -10}

\* Series, one day shorter than the valid ones, with at least one probability
\* outside [0, 1].
InvalidProbSeries ==
  { series \in UNION { [1..len -> Probs \cup InvalidProbs] : len \in 1..(MaxDays - 1) } :
      \E k \in 1..Len(series) : series[k] \in InvalidProbs }

\* The function called on such a series: lines 64-94 run as on any other input.
InitInvalid ==
  /\ model_probs \in InvalidProbSeries
  /\ num_days = Len(model_probs)
  /\ option_expiry_days \in 0..MaxExpiry
  /\ args = DefaultArgs
  /\ strategy = <<>>
  /\ i = 0
  /\ active_option = FALSE
  /\ option_start_idx = -1
  /\ option_expiry_idx = -1
  /\ strike_price = NaN
  /\ entry_option_price = NaN
  /\ option_cost = NaN
  /\ pricer_calls = <<>>
  /\ previous = NoRun
  /\ quotes = <<>>
  /\ summary = NoSummary
  /\ pc = "loop"

\* The function called on a vix_values series that is 0 on every day.
InitZeroVol ==
  /\ model_probs \in ProbSeries
  /\ num_days = Len(model_probs)
  /\ option_expiry_days \in 0..MaxExpiry
  /\ args = [DefaultArgs EXCEPT !.vix_values = {0}]
  /\ strategy = <<>>
  /\ i = 0
  /\ active_option = FALSE
  /\ option_start_idx = -1
  /\ option_expiry_idx = -1
  /\ strike_price = NaN
  /\ entry_option_price = NaN
  /\ option_cost = NaN
  /\ pricer_calls = <<>>
  /\ previous = NoRun
  /\ quotes = <<>>
  /\ summary = NoSummary
  /\ pc = "loop"

\* The function called on a vix_values series that also takes the value 500
\* (a volatility of 500%, positive and so a valid input).
InitHighVol ==
  /\ model_probs \in ProbSeries
  /\ num_days = Len(model_probs)
  /\ option_expiry_days \in 0..MaxExpiry
  /\ args = [DefaultArgs EXCEPT !.vix_values = {30, 500}]
  /\ strategy = <<>>
  /\ i = 0
  /\ active_option = FALSE
  /\ option_start_idx = -1
  /\ option_expiry_idx = -1
  /\ strike_price = NaN
  /\ entry_option_price = NaN
  /\ option_cost = NaN
  /\ pricer_calls = <<>>
  /\ previous = NoRun
  /\ quotes = <<>>
  /\ summary = NoSummary
  /\ pc = "loop"

\* Arguments outside their sane bounds: strike_pct = 1.0, and threshold = 1.5.
BadArgs ==
  { [DefaultArgs EXCEPT !.strike_pct = 100],
    [DefaultArgs EXCEPT !.threshold = 150] }

\* The function called with such arguments, on series one day shorter than
\* the longest and with a tenor of at least one day.
InitBadConfig ==
  /\ model_probs \in ProbSeries
  /\ Len(model_probs) <= MaxDays - 1
  /\ num_days = Len(model_probs)
  /\ option_expiry_days \in 1..MaxExpiry
  /\ args \in BadArgs
  /\ strategy = <<>>
  /\ i = 0
  /\ active_option = FALSE
  /\ option_start_idx = -1
  /\ option_expiry_idx = -1
  /\ strike_price = NaN
  /\ entry_option_price = NaN
  /\ option_cost = NaN
  /\ pricer_calls = <<>>
  /\ previous = NoRun
  /\ quotes = <<>>
  /\ summary = NoSummary
  /\ pc = "loop"

\* The pricer called on its own, outside a backtest: the spots, strikes and
\* volatilities it is asked about, all with T > 0.
QuoteSpots == Prices \cup {900000}
QuoteStrikes == {strike_of(p) : p \in Prices}
QuoteVols == VixValues \cup {0, 500}
QuoteDays == 1..MaxExpiry

InitPricer ==
  /\ model_probs = <<>>
  /\ num_days = 0
  /\ option_expiry_days = 0
  /\ args = DefaultArgs
  /\ strategy = <<>>
  /\ i = 0
  /\ active_option = FALSE
  /\ option_start_idx = -1
  /\ option_expiry_idx = -1
  /\ strike_price = NaN
  /\ entry_option_price = NaN
  /\ option_cost = NaN
  /\ pricer_calls = <<>>
  /\ previous = NoRun
  /\ quotes = <<>>
  /\ summary = NoSummary
  /\ pc = "pricer"

\* ----------------------------------------------------------------- actions

InLoop == pc = "loop" /\ i < num_days

\* Lines 106-140: the active option is marked to market and sold because the
\* probability fell below the threshold while it shows a profit.
ThresholdExit ==
  /\ InLoop
  /\ active_option
  /\ \E price \in spy_prices(i), vixv \in vix_values(i) :
       /\ ExitsOnThreshold(price, vixv)
       /\ LET cur == current_option_price(price, vixv)
              row == MarkToMarket(MarkActive(StartRow(price, vixv)), price, vixv)
          IN strategy' = WriteRow(strategy, i,
                [row EXCEPT !.exit_type = "threshold_exit",
                            !.cash_balance = @ + cur * option_coverage,
                            !.option_balance = 0])
  /\ pricer_calls' = WithMarkCall
  /\ active_option' = after_exit(active_option)
  /\ i' = next_index(i)
  /\ UNCHANGED <<inputs, previous, quotes, option_start_idx, option_expiry_idx, strike_price,
                 entry_option_price, option_cost, summary, pc>>

\* Lines 106-131 and 142-154: the active option expires today and pays its
\* intrinsic value.
Expiry ==
  /\ InLoop
  /\ active_option
  /\ is_expiring(i, option_expiry_idx)
  /\ \E price \in spy_prices(i), vixv \in vix_values(i) :
       /\ ~ExitsOnThreshold(price, vixv)
       /\ LET payoff == payoff_at_expiry(strike_price, price)
              row == MarkToMarket(MarkActive(StartRow(price, vixv)), price, vixv)
          IN strategy' = WriteRow(strategy, i,
                [row EXCEPT !.option_price = payoff,
                            !.cash_balance = @ + payoff * option_coverage,
                            !.option_balance = 0,
                            !.exit_type = "expiry"])
  /\ pricer_calls' = WithMarkCall
  /\ active_option' = after_exit(active_option)
  /\ i' = next_index(i)
  /\ UNCHANGED <<inputs, previous, quotes, option_start_idx, option_expiry_idx, strike_price,
                 entry_option_price, option_cost, summary, pc>>

\* Lines 106-131 with neither exit taken: the option stays active.
Hold ==
  /\ InLoop
  /\ active_option
  /\ ~is_expiring(i, option_expiry_idx)
  /\ \E price \in spy_prices(i), vixv \in vix_values(i) :
       /\ ~ExitsOnThreshold(price, vixv)
       /\ strategy' = WriteRow(strategy, i,
             MarkToMarket(MarkActive(StartRow(price, vixv)), price, vixv))
  /\ pricer_calls' = WithMarkCall
  /\ i' = next_index(i)
  /\ UNCHANGED <<inputs, previous, quotes, locals, summary, pc>>

\* Mutant: a position is opened on every signal, active option or not.
should_open_IgnoringActive(active, sig) == sig = 1

\* elif signal == 1
should_open(active, sig) == ~active /\ sig = 1

\* Mutant: the premium is not taken from the cash.
after_premium_Free(cash, cost) == cash

\* Line 187: cash_balance -= option_cost
after_premium(cash, cost) == cash - cost

\* Lines 156-187: no option is active and the signal is on: buy a put.
Open ==
  /\ InLoop
  /\ should_open(active_option, signal_of(model_probs[i + 1]))
  /\ \E price \in spy_prices(i), vixv \in vix_values(i) :
       LET strike == strike_of(price)
           entry == estimate_put_option_price(price, strike, option_expiry_days, vixv)
           cost == entry * option_coverage
           expiry == expiry_idx_of(i, option_expiry_days)
           row == StartRow(price, vixv)
       IN /\ strike_price' = strike
          /\ entry_option_price' = entry
          /\ option_cost' = cost
          /\ option_expiry_idx' = expiry
          /\ strategy' = WriteRow(strategy, i,
                [row EXCEPT !.has_active_option = TRUE,
                            !.option_start_idx = i,
                            !.option_expiry_idx = expiry,
                            !.strike_price = strike,
                            !.option_price = entry,
                            !.option_cost = cost,
                            !.option_balance = cost,
                            !.cash_balance = after_premium(@, cost)])
  /\ pricer_calls' = Append(pricer_calls, <<i, option_expiry_days>>)
  /\ active_option' = TRUE
  /\ option_start_idx' = i
  /\ i' = next_index(i)
  /\ UNCHANGED <<inputs, previous, quotes, summary, pc>>

\* No option is active and the signal is off: the row keeps its defaults and
\* the carried cash.
NoOp ==
  /\ InLoop
  /\ ~active_option
  /\ ~should_open(active_option, signal_of(model_probs[i + 1]))
  /\ \E price \in spy_prices(i), vixv \in vix_values(i) :
       strategy' = WriteRow(strategy, i, StartRow(price, vixv))
  /\ i' = next_index(i)
  /\ UNCHANGED <<inputs, previous, quotes, locals, pricer_calls, summary, pc>>

\* Mutant: the cash balance is left out of the strategy balance.
strategy_balance_of_NoCash(row) == row.stock_balance + row.option_balance

\* strategy_balance = stock_balance + option_balance + cash_balance
strategy_balance_of(row) ==
  row.stock_balance + row.option_balance + row.cash_balance

\* initial_balance = strategy.iloc[0]['stock_balance']
initial_balance_of(rows) == rows[1].stock_balance

\* x / initial_balance: a return is kept as the exact fraction num/den.  All
\* returns of a run have the same positive denominator, so they are compared
\* and subtracted by their numerators.
ratio(x, base) == [num |-> x, den |-> base]

ratio_sub(a, b) == [num |-> a.num - b.num, den |-> a.den]

\* Mutant: the peak is the day's own value.
running_max_Last(peak, v) == v

\* One step of cummax(): the larger of the peak so far and the day's value.
running_max(peak, v) == IF peak.num >= v.num THEN peak ELSE v

\* Series.cummax(): the running maxima of positions 1 .. t.
RECURSIVE cummax(_, _)
cummax(vals, t) ==
  IF t = 1 THEN <<vals[1]>>
  ELSE LET peaks == cummax(vals, t - 1)
       IN Append(peaks, running_max(peaks[t - 1], vals[t]))

\* Mutant: a day without drawdown leaves the counter as it was.
next_duration_NoReset(current, drawdown) ==
  IF drawdown.num < 0 THEN current + 1 ELSE current

\* Lines 224-231: the counter after a day with the given drawdown.
next_duration(current, drawdown) ==
  IF drawdown.num < 0 THEN current + 1 ELSE 0

\* Lines 218-234: the drawdown durations of positions 1 .. t; row 0 keeps the
\* column's initial 0, the loop runs from row 1.
RECURSIVE drawdown_duration(_, _)
drawdown_duration(drawdowns, t) ==
  IF t = 1 THEN <<0>>
  ELSE LET counted == drawdown_duration(drawdowns, t - 1)
       IN Append(counted, next_duration(counted[t - 1], drawdowns[t]))

\* Mutant: the benchmark holds the stock and the strategy's cash.
benchmark_balance_of_WithCash(row) == row.stock_balance + row.cash_balance

\* strategy['benchmark_balance'] = strategy['stock_balance']
benchmark_balance_of(row) == row.stock_balance

\* Series.max() of a column of non-negative counters.
RECURSIVE column_max(_, _)
column_max(vals, t) ==
  IF t = 0 THEN 0 ELSE Max(column_max(vals, t - 1), vals[t])

\* Lines 189-207: balances and cumulative returns of both series.
WithReturns(rows) ==
  LET initial_balance == initial_balance_of(rows)
  IN [t \in 1..Len(rows) |->
        LET sb == strategy_balance_of(rows[t])
            bb == benchmark_balance_of(rows[t])
        IN [rows[t] EXCEPT !.strategy_balance = sb,
                           !.cum_strategy_dollar_return = sb - initial_balance]
           @@ [ cum_strategy_return |-> ratio(sb - initial_balance, initial_balance),
                benchmark_balance |-> bb,
                cum_benchmark_dollar_return |-> bb - initial_balance,
                cum_benchmark_return |-> ratio(bb - initial_balance, initial_balance) ]]

\* Lines 210-234: peaks, drawdowns and drawdown durations of both series.
WithDrawdowns(rows) ==
  LET n == Len(rows)
      cs == [t \in 1..n |-> rows[t].cum_strategy_return]
      cb == [t \in 1..n |-> rows[t].cum_benchmark_return]
      ps == cummax(cs, n)
      pb == cummax(cb, n)
      ds == [t \in 1..n |-> ratio_sub(cs[t], ps[t])]
      db == [t \in 1..n |-> ratio_sub(cb[t], pb[t])]
      us == drawdown_duration(ds, n)
      ub == drawdown_duration(db, n)
  IN [t \in 1..n |->
        rows[t] @@
          [ strategy_peak |-> ps[t],
            benchmark_peak |-> pb[t],
            strategy_drawdown |-> ds[t],
            benchmark_drawdown |-> db[t],
            strategy_drawdown_duration |-> us[t],
            benchmark_drawdown_duration |-> ub[t] ]]

\* Lines 261-262: std() * sqrt(252) of a daily return column, by its sign.  The
\* column holds 0 on day 0 and balance[t] / balance[t-1] - 1 on day t >= 1; the
\* sample standard deviation is nan for one row, 0 when every return equals
\* the 0 of day 0, and positive otherwise.
volatility_of(balances) ==
  IF Len(balances) = 1 THEN "nan"
  ELSE IF \A t \in 2..Len(balances) : balances[t] = balances[t - 1] THEN "zero"
  ELSE "positive"

\* x / volatility in IEEE arithmetic: the quotient of the two when the
\* volatility is positive, infinite or nan otherwise.
divide(x, volatility) ==
  IF volatility = "positive" THEN [value |-> "quotient", of |-> x]
  ELSE IF volatility = "zero" /\ x.num # 0 THEN [value |-> "inf"]
  ELSE [value |-> "nan"]

\* Mutant: the Sharpe ratio is computed whatever the volatility is.
is_positive_Always(volatility) == TRUE

\* volatility > 0, which is False for nan.
is_positive(volatility) == volatility = "positive"

\* Lines 264-265: return / volatility if volatility > 0 else 0.
sharpe_of(total_return, volatility) ==
  IF is_positive(volatility) THEN divide(total_return, volatility)
  ELSE [value |-> "zero"]

\* Lines 236-265: the metrics read from the finished frame.  No row ever holds
\* exit_type "still_active", so that count reads the rows as they are.
Metrics(rows) ==
  [ total_periods |-> Len(rows),
    option_periods |-> Cardinality({ t \in 1..Len(rows) : rows[t].has_active_option }),
    option_entries |-> Cardinality({ t \in 1..Len(rows) : rows[t].option_start_idx = t - 1 }),
    expiry_exits |-> Cardinality({ t \in 1..Len(rows) : rows[t].exit_type = "expiry" }),
    threshold_exits |->
      Cardinality({ t \in 1..Len(rows) : rows[t].exit_type = "threshold_exit" }),
    still_active |->
      Cardinality({ t \in 1..Len(rows) : rows[t].exit_type = "still_active" }),
    strategy_volatility |->
      volatility_of([t \in 1..Len(rows) |-> rows[t].strategy_balance]),
    benchmark_volatility |->
      volatility_of([t \in 1..Len(rows) |-> rows[t].benchmark_balance]),
    strategy_sharpe |->
      sharpe_of(rows[Len(rows)].cum_strategy_return,
                volatility_of([t \in 1..Len(rows) |-> rows[t].strategy_balance])),
    benchmark_sharpe |->
      sharpe_of(rows[Len(rows)].cum_benchmark_return,
                volatility_of([t \in 1..Len(rows) |-> rows[t].benchmark_balance])),
    strategy_max_drawdown_duration |->
      column_max([t \in 1..Len(rows) |-> rows[t].strategy_drawdown_duration], Len(rows)),
    benchmark_max_drawdown_duration |->
      column_max([t \in 1..Len(rows) |-> rows[t].benchmark_drawdown_duration], Len(rows)) ]

\* range(len(strategy)) is exhausted.
LoopDone == pc = "loop" /\ i = num_days

\* Lines 189-265, after the day loop: returns, drawdowns and metrics.
CalcReturns ==
  /\ LoopDone
  /\ strategy' = WithDrawdowns(WithReturns(strategy))
  /\ summary' = Metrics(strategy')
  /\ pc' = "done"
  /\ UNCHANGED <<inputs, previous, quotes, i, locals, pricer_calls>>

\* Mutant: a call starts with the active flag the call before left behind.
FreshLocals_Leftover ==
  [ active_option |-> active_option, option_start_idx |-> -1,
    option_expiry_idx |-> -1, strike_price |-> NaN,
    entry_option_price |-> NaN, option_cost |-> NaN ]

\* Lines 90-94: the values the loop's locals are given when a call starts.
\* option_cost is first assigned at entry; it is read only while an option is
\* active.
FreshLocals ==
  [ active_option |-> FALSE, option_start_idx |-> -1,
    option_expiry_idx |-> -1, strike_price |-> NaN,
    entry_option_price |-> NaN, option_cost |-> NaN ]

\* The caller keeps the returned frame and calls the function once more on
\* the same arguments: lines 64-94 build a new frame and new locals.
CallAgain ==
  /\ pc = "done"
  /\ previous = NoRun
  /\ previous' = [rows |-> strategy, summary |-> summary]
  /\ strategy' = <<>>
  /\ i' = 0
  /\ active_option' = FreshLocals.active_option
  /\ option_start_idx' = FreshLocals.option_start_idx
  /\ option_expiry_idx' = FreshLocals.option_expiry_idx
  /\ strike_price' = FreshLocals.strike_price
  /\ entry_option_price' = FreshLocals.entry_option_price
  /\ option_cost' = FreshLocals.option_cost
  /\ pricer_calls' = <<>>
  /\ summary' = NoSummary
  /\ pc' = "loop"
  /\ UNCHANGED <<inputs, quotes>>

\* Two quotes of one contract: the same strike and time to expiry.
SameContract(a, b) == a.K = b.K /\ a.days = b.days

\* One call of estimate_put_option_price (lines 7-28) with r = 0.02 and
\* T = days/252 > 0; the arguments and the returned price are kept.  The
\* calls of one run are on one contract, at any spot and volatility.
Quote ==
  /\ pc = "pricer"
  /\ Len(quotes) < MaxQuotes
  /\ \E S \in QuoteSpots, K \in QuoteStrikes, days \in QuoteDays, vixv \in QuoteVols :
       LET q == [S |-> S, K |-> K, days |-> days, vix |-> vixv,
                 price |-> estimate_put_option_price(S, K, days, vixv)]
       IN /\ quotes # <<>> => SameContract(q, quotes[1])
          /\ quotes' = Append(quotes, q)
  /\ UNCHANGED <<inputs, previous, strategy, i, locals, pricer_calls, summary, pc>>

\* ------------------------------------------------------- reading the ledger

\* Row t (0-based) of the DataFrame.
Row(t) == strategy[t + 1]

\* The indices of the rows written so far.
Rows == 0 .. (Len(strategy) - 1)

IsExit(t) == Row(t).exit_type \in {"expiry", "threshold_exit"}

IsEntry(t) == Row(t).option_start_idx = t

\* A day of the loop is processed by this step.
DayTaken == pc = "loop" /\ i' = i + 1

\* cash_balance of the previous row; 0, the column's initial value, on day 0.
PrevCash == IF i = 0 THEN 0 ELSE strategy[i].cash_balance

\* cash_balance of the row before row t; 0 before row 0.
PrevCashOf(t) == IF t = 0 THEN 0 ELSE Row(t - 1).cash_balance

\* --------------------------------------------------------------------- C1

\* C1: after a run, in every row t, strategy_balance[t] = stock_balance[t] +
\* option_balance[t] + cash_balance[t], whatever events preceded day t.
C1_BalanceIdentity ==
  pc = "done" =>
    \A t \in Rows :
      Row(t).strategy_balance =
        Row(t).stock_balance + Row(t).option_balance + Row(t).cash_balance

\* A finished run with a threshold exit followed by a day that holds an option
\* bought with the proceeds still in cash.
C1_Witness ==
  /\ pc = "done"
  /\ \E t \in Rows, u \in Rows :
       /\ t < u
       /\ Row(t).exit_type = "threshold_exit"
       /\ Row(u).option_balance > 0
       /\ Row(u).cash_balance > 0
       /\ Row(u).strategy_balance # Row(u).stock_balance

\* --------------------------------------------------------------------- C2

\* The positions opened on or before day t that no row up to t closes.
OpenAfter(t) ==
  { e \in 0..t :
      /\ IsEntry(e)
      /\ ~\E j \in (e + 1)..t : IsExit(j) /\ Row(j).option_start_idx = e }

\* C2: after every day at most one position is open; a position is opened on
\* day t only if none was open after day t-1; and the loop's flag says whether
\* one is open.
C2_AtMostOneActive ==
  /\ \A t \in Rows :
       /\ Cardinality(OpenAfter(t)) <= 1
       /\ (IsEntry(t) /\ t > 0) => OpenAfter(t - 1) = {}
  /\ (pc = "loop" /\ i > 0) => (active_option <=> OpenAfter(i - 1) # {})

\* A second position is open after the first one was closed on an earlier day.
C2_Witness ==
  /\ active_option
  /\ \E e \in Rows, j \in Rows :
       /\ e < j /\ j < option_start_idx
       /\ IsEntry(e) /\ IsExit(j)
       /\ OpenAfter(i - 1) = {option_start_idx}

\* --------------------------------------------------------------------- C3

\* The threshold-exit condition on day i for the position of the loop's locals
\* and the observation of row r.
C3_ThresholdCondition(r) ==
  /\ option_expiry_idx - i > 0
  /\ r.prob < threshold
  /\ estimate_put_option_price(r.spy_price, strike_price,
                               option_expiry_idx - i, r.vix) > entry_option_price

\* The action the priority order selects on day i.
C3_Selected(r) ==
  IF active_option /\ i = option_expiry_idx THEN "expiry"
  ELSE IF active_option /\ C3_ThresholdCondition(r) THEN "threshold_exit"
  ELSE IF active_option THEN "hold"
  ELSE IF r.prob >= threshold THEN "open"
  ELSE "noop"

\* The actions whose effect row r and the flag after the day show.
C3_Taken(r, idx, active_after) ==
  { k \in {"expiry", "threshold_exit", "hold", "open", "noop"} :
      \/ k = "expiry" /\ r.exit_type = "expiry" /\ ~active_after
                      /\ r.has_active_option /\ r.option_start_idx # idx
      \/ k = "threshold_exit" /\ r.exit_type = "threshold_exit" /\ ~active_after
                      /\ r.has_active_option /\ r.option_start_idx # idx
      \/ k = "hold" /\ r.exit_type = "" /\ active_after
                      /\ r.has_active_option /\ r.option_start_idx # idx
      \/ k = "open" /\ r.exit_type = "" /\ active_after
                      /\ r.has_active_option /\ r.option_start_idx = idx
      \/ k = "noop" /\ r.exit_type = "" /\ ~active_after
                      /\ ~r.has_active_option }

\* C3: every day takes exactly one of expiry-exit, threshold-exit, hold, open
\* and no-op, namely the first that applies in that order.
C3_PriorityOrder ==
  [][DayTaken =>
       C3_Taken(strategy'[i + 1], i, active_option') = {C3_Selected(strategy'[i + 1])}]_vars

\* An expiry row on a day whose probability is below the threshold and whose
\* recorded option value exceeds the entry premium.
C3_Witness ==
  \E t \in Rows :
    /\ Row(t).exit_type = "expiry"
    /\ Row(t).prob < threshold
    /\ Row(t).option_price > Row(Row(t).option_start_idx).option_price
    /\ Row(Row(t).option_start_idx).option_price > 0

\* --------------------------------------------------------------------- C4

C6_Expiry ==
  [][(DayTaken /\ active_option /\ i = option_expiry_idx) =>
       LET r == strategy'[i + 1]
           payoff == Max(0, strike_price - r.spy_price)
       IN /\ r.exit_type = "expiry"
          /\ ~active_option'
          /\ r.option_price = payoff
          /\ r.cash_balance = PrevCash + payoff * option_coverage
          /\ r.option_balance = 0
          /\ pricer_calls' = pricer_calls]_vars

\* An expiry that pays a positive intrinsic value on a day whose probability
\* is at or above the threshold.
C6_Witness ==
  \E t \in Rows :
    /\ Row(t).exit_type = "expiry"
    /\ Row(t).prob >= threshold
    /\ Row(t).option_price > 0
    /\ Row(t).option_price = Row(t).strike_price - Row(t).spy_price


\* --------------------------------------------------------------------- C7

\* The rows that close the position opened on day e.
ExitRowsOf(e) == { j \in Rows : IsExit(j) /\ Row(j).option_start_idx = e }

\* For expiry_days >= 1, a position opened on day e with e + expiry_days <=
\* N-1 has at most one exit row, after e and not after e + expiry_days, a
\* threshold exit before e + expiry_days and an expiry on it; and exactly one
\* once day e + expiry_days is processed.
C7_OneExitPerPosition ==
  option_expiry_days >= 1 =>
    \A e \in Rows :
      (IsEntry(e) /\ e + option_expiry_days <= num_days - 1) =>
        /\ Cardinality(ExitRowsOf(e)) <= 1
        /\ \A j \in ExitRowsOf(e) :
             /\ e < j /\ j <= e + option_expiry_days
             /\ Row(j).exit_type = "threshold_exit" <=> j < e + option_expiry_days
             /\ Row(j).exit_type = "expiry" <=> j = e + option_expiry_days
        /\ Len(strategy) > e + option_expiry_days => Cardinality(ExitRowsOf(e)) = 1

\* The scenario: probabilities [0.2, 0.6, 0.6, 0.3, 0.3, 0.3], threshold 0.5,
\* expiry_days 3: one entry, on day 1; one exit, on day 3 by threshold with
\* the day's price above the premium, or on day 4 by expiry.
C7_Scenario ==
  (pc = "done" /\ model_probs = ScenarioProbs /\ option_expiry_days = 3) =>
    /\ { e \in Rows : IsEntry(e) } = {1}
    /\ \E j \in {3, 4} :
         /\ { x \in Rows : Row(x).exit_type # "" } = {j}
         /\ Row(j).option_start_idx = 1
         /\ j = 3 => /\ Row(3).exit_type = "threshold_exit"
                     /\ Row(3).option_price > Row(1).option_price
         /\ j = 4 => Row(4).exit_type = "expiry"

\* C7: every position opened early enough to expire within the series has
\* exactly one exit row, inside its tenor and of the matching type; the
\* scenario of spec section 8 opens on day 1 and closes on day 3 or 4.
C7_ExitWithinTenor == C7_OneExitPerPosition /\ C7_Scenario

\* The scenario run, finished, with the position sold by the threshold on day 3.
C7_Witness ==
  /\ pc = "done"
  /\ model_probs = ScenarioProbs
  /\ option_expiry_days = 3
  /\ Row(3).exit_type = "threshold_exit"
  /\ ExitRowsOf(1) = {3}

\* --------------------------------------------------------------------- C8

\* C8: a row that closes a position opens none; after it no position is open;
\* and the next day opens a position iff its probability >= threshold.
C8_NoEntryOnExitDay ==
  \A t \in Rows :
    IsExit(t) =>
      /\ ~IsEntry(t)
      /\ OpenAfter(t) = {}
      /\ (pc = "loop" /\ t + 1 = i) => ~active_option
      /\ (t + 1) \in Rows =>
           /\ IsEntry(t + 1) <=> Row(t + 1).prob >= threshold
           /\ Row(t + 1).has_active_option <=> IsEntry(t + 1)
           /\ Row(t + 1).exit_type = ""

\* A position closed on a day whose probability is at or above the threshold,
\* and a new one opened on the following day.
C8_Witness ==
  \E t \in Rows :
    /\ IsExit(t)
    /\ Row(t).prob >= threshold
    /\ (t + 1) \in Rows
    /\ IsEntry(t + 1)
    /\ Row(t + 1).prob >= threshold

\* --------------------------------------------------------------------- C9

\* The cash of day i's event, from the position at the start of the day and
\* the observation of row r.
C9_Delta(r) ==
  IF r.exit_type = "expiry"
  THEN Max(0, strike_price - r.spy_price) * option_coverage
  ELSE IF r.exit_type = "threshold_exit"
  THEN estimate_put_option_price(r.spy_price, strike_price,
                                 option_expiry_idx - i, r.vix) * option_coverage
  ELSE IF r.option_start_idx = i
  THEN 0 - estimate_put_option_price(r.spy_price,
                                     (r.spy_price * strike_pct) \div 100,
                                     option_expiry_days, r.vix) * option_coverage
  ELSE 0

\* C9: cash starts from 0 and every day's cash_balance is the previous day's
\* plus the day's event: - premium * coverage on an entry, + price * coverage
\* on a threshold exit, + payoff * coverage on an expiry, 0 otherwise.
C9_CashRecurrence ==
  [][DayTaken =>
       strategy'[i + 1].cash_balance = PrevCash + C9_Delta(strategy'[i + 1])]_vars

\* A hold day that carries a non-zero cash balance unchanged, and a later exit
\* that adds to it.
C9_Witness ==
  \E t \in Rows, u \in Rows :
    /\ 0 < t /\ t < u
    /\ Row(t).has_active_option /\ ~IsEntry(t) /\ Row(t).exit_type = ""
    /\ Row(t).cash_balance = Row(t - 1).cash_balance
    /\ Row(t).cash_balance < 0
    /\ IsExit(u)
    /\ Row(u).cash_balance > Row(u - 1).cash_balance

\* -------------------------------------------------------------------- C10

\* The mark-to-market value of the option on day t: the premium on the entry
\* day, the day's Black-Scholes value afterwards.
C10_MarkValue(t) ==
  IF IsEntry(t)
  THEN estimate_put_option_price(Row(t).spy_price,
                                 (Row(t).spy_price * strike_pct) \div 100,
                                 option_expiry_days, Row(t).vix)
  ELSE estimate_put_option_price(Row(t).spy_price, Row(t).strike_price,
                                 Row(t).option_expiry_idx - t, Row(t).vix)

\* A position is open at the end of day t.
ActiveAtEnd(t) == Row(t).has_active_option /\ Row(t).exit_type = ""

\* C10: for expiry_days >= 1, option_balance[t] is the day's mark-to-market
\* value * coverage when a position is active at the end of day t, and 0
\* otherwise.
C10_OptionBalance ==
  option_expiry_days >= 1 =>
    \A t \in Rows :
      /\ IF ActiveAtEnd(t)
         THEN Row(t).option_balance = C10_MarkValue(t) * option_coverage
         ELSE Row(t).option_balance = 0
      /\ (pc = "loop" /\ t + 1 = i) => (ActiveAtEnd(t) <=> active_option)

\* An entry day, a hold day whose option balance differs from the premium, and
\* the exit day of the same position with balance 0.
C10_Witness ==
  /\ option_expiry_days >= 1
  /\ \E t \in Rows, u \in Rows :
       /\ t < u
       /\ ActiveAtEnd(t) /\ ~IsEntry(t)
       /\ Row(t).option_balance > 0
       /\ Row(t).option_balance # Row(Row(t).option_start_idx).option_balance
       /\ IsExit(u) /\ Row(u).option_start_idx = Row(t).option_start_idx
       /\ Row(u).option_balance = 0

\* -------------------------------------------------------------------- C11

\* The pricer calls logged so far, as a set.
Calls == { pricer_calls[k] : k \in 1..Len(pricer_calls) }

\* C11: for expiry_days >= 1 every pricer call has T > 0: the call of an entry
\* day has T = expiry_days, every other call is the mark of an active position
\* with T = expiry index - day >= 1, and no call is made on or after the
\* position's expiry index.
C11_PricerTimePositive ==
  option_expiry_days >= 1 =>
    \A c \in Calls :
      /\ c[1] \in Rows
      /\ c[2] > 0
      /\ IF IsEntry(c[1])
         THEN c[2] = option_expiry_days
         ELSE /\ Row(c[1]).has_active_option
              /\ c[2] = Row(c[1]).option_expiry_idx - c[1]
              /\ c[2] >= 1
              /\ c[1] < Row(c[1]).option_expiry_idx

\* A position priced at entry, marked with one day left, and expired on the
\* next day without a call.
C11_Witness ==
  /\ option_expiry_days >= 1
  /\ \E t \in Rows :
       /\ Row(t).exit_type = "expiry"
       /\ <<Row(t).option_start_idx, option_expiry_days>> \in Calls
       /\ <<t - 1, 1>> \in Calls
       /\ t - 1 > Row(t).option_start_idx
       /\ ~\E c \in Calls : c[1] = t

\* -------------------------------------------------------------------- C12

\* The positions closed by a row of the given exit type.
ClosedBy(type) ==
  { e \in Rows : IsEntry(e) /\ \E j \in ExitRowsOf(e) : Row(j).exit_type = type }

\* C12: in the summary, expiry counts the positions closed at expiry,
\* threshold_exit those closed by the threshold, and still_active the
\* positions still open after the last day (1 or 0).
C12_ExitCounts ==
  pc = "done" =>
    /\ summary.expiry_exits = Cardinality(ClosedBy("expiry"))
    /\ summary.threshold_exits = Cardinality(ClosedBy("threshold_exit"))
    /\ summary.still_active = Cardinality(OpenAfter(num_days - 1))
    /\ summary.still_active = IF active_option THEN 1 ELSE 0

\* The two exit counts alone, which the code does compute as claimed.
C12_ClosedCounts ==
  pc = "done" =>
    /\ summary.expiry_exits = Cardinality(ClosedBy("expiry"))
    /\ summary.threshold_exits = Cardinality(ClosedBy("threshold_exit"))

\* -------------------------------------------------------------------- C13

\* C13: on every day the benchmark balance is the stock balance, which is the
\* underlying price; the cumulative dollar return of each series is its
\* balance less its own day-0 balance, and both are 0 on day 0, also when a
\* position is opened on day 0.
C13_ReturnsAgainstDayZero ==
  pc = "done" =>
    /\ \A t \in Rows :
         /\ Row(t).benchmark_balance = Row(t).stock_balance
         /\ Row(t).stock_balance = Row(t).spy_price
         /\ Row(t).cum_strategy_dollar_return =
              Row(t).strategy_balance - Row(0).strategy_balance
         /\ Row(t).cum_benchmark_dollar_return =
              Row(t).benchmark_balance - Row(0).benchmark_balance
    /\ Row(0).cum_strategy_dollar_return = 0
    /\ Row(0).cum_benchmark_dollar_return = 0

\* A finished run that opened a position on day 0 and whose two series differ
\* on a later day.
C13_Witness ==
  /\ pc = "done"
  /\ IsEntry(0)
  /\ Row(0).option_balance > 0
  /\ Row(0).cash_balance < 0
  /\ \E t \in Rows :
       /\ t >= 1
       /\ Row(t).cum_strategy_dollar_return # Row(t).cum_benchmark_dollar_return
       /\ Row(t).cum_benchmark_dollar_return # 0

\* -------------------------------------------------------------------- C14

\* The position, balance and exit_type fields of a ledger row.
Ledger(row) ==
  << row.stock_balance, row.option_balance, row.cash_balance, row.exit_type,
     row.has_active_option, row.option_start_idx, row.option_expiry_idx,
     row.strike_price >>

\* What one step may do to the ledger: a day of the loop writes row i and
\* leaves every earlier row as it was; the calculations after the loop leave
\* the position, balance and exit_type fields of all rows as they were and
\* find one row per input day.
C14_Step ==
  /\ pc = "loop" /\ pc' = "loop" =>
       /\ Len(strategy) = i
       /\ Len(strategy') = i + 1
       /\ \A t \in 1..i : strategy'[t] = strategy[t]
  /\ pc = "loop" /\ pc' = "done" =>
       /\ Len(strategy') = Len(strategy)
       /\ Len(strategy') = num_days
       /\ \A t \in 1..Len(strategy) : Ledger(strategy'[t]) = Ledger(strategy[t])

\* C14: the run produces one ledger row per input day, and day i writes the
\* position, balance and exit_type fields of row i only: those fields of
\* every row j < i stay as they were after day j.
C14_RowFrame == [][C14_Step]_vars

\* Day 2 has been written after day 1 left a position with a mark in the
\* ledger, and that row still shows it.
C14_Witness ==
  /\ pc = "loop"
  /\ i >= 3
  /\ Len(strategy) = i
  /\ Row(1).has_active_option
  /\ Row(1).option_balance > 0
  /\ Row(1).cash_balance < 0
  /\ Row(2).exit_type # ""

\* -------------------------------------------------------------------- C15

\* C15: on every row of a position's lifetime, from its entry day through its
\* exit day, the recorded strike is the entry-day spot times strike_pct and
\* the recorded expiry index is the entry index plus the tenor; hold and exit
\* days do not change them whatever their prices, volatilities and
\* probabilities are, and the values kept between days change only when the
\* next position is opened.
C15_TermsFixed ==
  /\ \A t \in Rows :
       Row(t).has_active_option =>
         LET e == Row(t).option_start_idx
         IN /\ e \in 0..t
            /\ IsEntry(e)
            /\ Row(t).strike_price = (Row(e).spy_price * strike_pct) \div 100
            /\ Row(t).strike_price = Row(e).strike_price
            /\ Row(t).option_expiry_idx = e + option_expiry_days
            /\ Row(t).option_expiry_idx = Row(e).option_expiry_idx
  /\ option_start_idx >= 0 =>
       /\ IsEntry(option_start_idx)
       /\ \A t \in Rows : IsEntry(t) => t <= option_start_idx
       /\ strike_price = Row(option_start_idx).strike_price
       /\ option_expiry_idx = Row(option_start_idx).option_expiry_idx

\* A position held and closed at another spot than its entry spot, followed
\* by a second position with another strike.
C15_Witness ==
  \E e, t, n \in Rows :
    /\ IsEntry(e) /\ IsExit(t) /\ IsEntry(n)
    /\ Row(t).option_start_idx = e
    /\ e + 1 < t /\ t < n
    /\ Row(e + 1).spy_price # Row(e).spy_price
    /\ Row(t).spy_price # Row(e).spy_price
    /\ Row(t).strike_price = Row(e).strike_price
    /\ Row(n).strike_price # Row(e).strike_price

\* -------------------------------------------------------------------- C16

\* The peak and drawdown columns of one series agree with its cumulative
\* returns: cum, peak and drawdown map a day to a fraction over the initial
\* balance.
PeaksAgree(cum(_), peak(_), drawdown(_)) ==
  \A t \in Rows :
    /\ \E s \in 0..t : peak(t).num = cum(s).num
    /\ \A s \in 0..t : peak(t).num >= cum(s).num
    /\ peak(t).den = cum(t).den /\ drawdown(t).den = cum(t).den /\ cum(t).den > 0
    /\ t >= 1 => peak(t).num >= peak(t - 1).num
    /\ drawdown(t).num = cum(t).num - peak(t).num
    /\ drawdown(t).num <= 0
    /\ drawdown(t).num = 0 <=> \A s \in 0..t : cum(t).num >= cum(s).num

strategy_cum(t) == Row(t).cum_strategy_return
strategy_peak(t) == Row(t).strategy_peak
strategy_drawdown(t) == Row(t).strategy_drawdown
benchmark_cum(t) == Row(t).cum_benchmark_return
benchmark_peak(t) == Row(t).benchmark_peak
benchmark_drawdown(t) == Row(t).benchmark_drawdown

\* C16: for the strategy and the benchmark, on every day the peak is the
\* maximum of the cumulative returns so far, the peak never decreases, the
\* drawdown is the cumulative return less the peak and is at most 0, and it is
\* 0 exactly on the days whose cumulative return is the running maximum.
C16_PeakAndDrawdown ==
  pc = "done" =>
    /\ PeaksAgree(strategy_cum, strategy_peak, strategy_drawdown)
    /\ PeaksAgree(benchmark_cum, benchmark_peak, benchmark_drawdown)

\* A finished run where each series falls below its peak and later is back at
\* its running maximum, and the strategy has made a new high after day 0.
C16_Witness ==
  /\ pc = "done"
  /\ \E t, u \in Rows :
       /\ t < u
       /\ benchmark_drawdown(t).num < 0
       /\ benchmark_drawdown(u).num = 0
  /\ \E t, u \in Rows :
       /\ t < u
       /\ strategy_drawdown(t).num < 0
       /\ strategy_drawdown(u).num = 0
       /\ strategy_peak(u).num > strategy_peak(t).num

\* -------------------------------------------------------------------- C17

\* The days s <= t from which the series stays below its peak through day t.
UnderWater(drawdown(_), t) ==
  { s \in 0..t : \A u \in s..t : drawdown(u).num < 0 }

\* The duration column of one series counts the consecutive days below the
\* peak, and longest is the largest such count.
DurationsAgree(drawdown(_), duration(_), longest) ==
  /\ duration(0) = 0
  /\ \A t \in Rows :
       /\ duration(t) = Cardinality(UnderWater(drawdown, t))
       /\ drawdown(t).num = 0 => duration(t) = 0
       /\ t >= 1 /\ drawdown(t).num < 0 => duration(t) = duration(t - 1) + 1
       /\ longest >= Cardinality(UnderWater(drawdown, t))
  /\ \E t \in Rows : longest = Cardinality(UnderWater(drawdown, t))

strategy_duration(t) == Row(t).strategy_drawdown_duration
benchmark_duration(t) == Row(t).benchmark_drawdown_duration

\* C17: for both series the drawdown duration of day t is the number of
\* consecutive days ending at t with a negative drawdown: 0 on day 0 and on
\* every day with drawdown 0, the previous duration plus one on every later
\* day with a negative drawdown; the summary's maximum drawdown duration is
\* the length of the longest such run.
C17_DrawdownDuration ==
  pc = "done" =>
    /\ DurationsAgree(strategy_drawdown, strategy_duration,
                      summary.strategy_max_drawdown_duration)
    /\ DurationsAgree(benchmark_drawdown, benchmark_duration,
                      summary.benchmark_max_drawdown_duration)

\* A finished run where each series has been below its peak, is back at it
\* and falls below it again, and the strategy's longest run is shorter than
\* the benchmark's.
C17_Witness ==
  /\ pc = "done"
  /\ \E t, u, v \in Rows :
       /\ t < u /\ u < v
       /\ benchmark_duration(t) >= 1
       /\ benchmark_duration(u) = 0
       /\ benchmark_duration(v) = 1
  /\ \E t, u \in Rows :
       /\ t < u
       /\ strategy_duration(t) = 2
       /\ strategy_duration(u) = 0
  /\ summary.strategy_max_drawdown_duration = 2

\* -------------------------------------------------------------------- C18

C19_Decision(active, expiry_idx, strike, cost, idx, price, vixv, prob) ==
  IF active
  THEN IF /\ expiry_idx - idx > 0
          /\ prob < threshold
          /\ estimate_put_option_price(price, strike, expiry_idx - idx, vixv) > cost
       THEN "threshold_exit"
       ELSE IF idx = expiry_idx THEN "expiry" ELSE "hold"
  ELSE IF prob >= threshold THEN "open" ELSE "noop"

\* The steps the run still has to take: one per day not yet handled and one
\* for the calculations after the loop.
StepsLeft == IF pc = "loop" THEN num_days - i + 1 ELSE 0

\* A pass through the body of the day loop.
DayStep == ThresholdExit \/ Expiry \/ Hold \/ Open \/ NoOp

\* One step of the run: a day of the loop handles index i, the next index not
\* yet handled, writes row i from day i's observation and takes the action
\* decided by the carried state and that observation.
C19_Step ==
  /\ pc = "loop" /\ pc' = "loop" =>
       /\ i < num_days
       /\ i' = i + 1
       /\ Len(strategy) = i
       /\ Len(strategy') = i + 1
       /\ strategy'[i + 1].prob = model_probs[i + 1]
       /\ C3_Taken(strategy'[i + 1], i, active_option') =
            { C19_Decision(active_option, option_expiry_idx, strike_price,
                           option_cost, i, strategy'[i + 1].spy_price,
                           strategy'[i + 1].vix, strategy'[i + 1].prob) }
  /\ StepsLeft' >= 0
  /\ StepsLeft' < StepsLeft

\* C19: for an input of N days the loop handles the indices 0, 1, ..., N-1 in
\* increasing order, each once, and then the run terminates; the action of
\* day t depends only on the position state carried over from day t-1 and on
\* day t's own observation, never on a later day.
\* Termination is stated without fairness: every pass lowers StepsLeft, which
\* is never negative; an unfinished run can always take a step (a pass, or
\* the calculations once the range is exhausted), and the loop is left only
\* after index N-1.  "Every pass satisfies C19_Step" reads, as a state
\* predicate: no pass that breaks C19_Step is enabled.
C19_InOrderThenDone ==
  /\ pc \in {"loop", "done"}
  /\ i \in 0..num_days
  /\ pc = "loop" => Len(strategy) = i
  /\ pc = "done" => i = num_days /\ Len(strategy) = num_days
  /\ pc = "done" \/ LoopDone \/ ENABLED DayStep
  /\ pc = "done" \/ LoopDone => ~ENABLED DayStep
  /\ ~ENABLED (DayStep /\ ~C19_Step)

\* A finished run of at least four days that opened, held and closed a
\* position and had a day without one.
C19_Witness ==
  /\ pc = "done"
  /\ i = num_days
  /\ num_days >= 4
  /\ \E t \in Rows : IsExit(t)
  /\ \E t \in Rows : Row(t).has_active_option /\ Row(t).exit_type = "" /\ ~IsEntry(t)
  /\ \E t \in Rows : ~Row(t).has_active_option

\* -------------------------------------------------------------------- C20

\* The input holds a crash probability outside [0, 1].
HasInvalidProb == \E k \in 1..Len(model_probs) : model_probs[k] \notin 0..100

\* C20: on an input series with a crash probability outside [0, 1] the run
\* fails before any ledger row is produced and returns no output.
C20_InvalidInputRejected ==
  HasInvalidProb => strategy = <<>> /\ pc # "done"

\* What the code does instead: it returns a full ledger, and a probability
\* above 1 has opened a position like any probability at or above the
\* threshold.
C20_Accepted ==
  /\ HasInvalidProb
  /\ pc = "done"
  /\ Len(strategy) = num_days
  /\ \E t \in Rows : Row(t).prob > 100 /\ IsEntry(t)

\* -------------------------------------------------------------------- C21

\* C21: the pricer is never made to return a price from a volatility <= 0,
\* at entry or when an active position is marked: no ledger row holds an
\* option price, option balance or cash amount computed from such a
\* volatility.
C21_NoPriceFromZeroVol ==
  \A c \in Calls : c[1] \in Rows => Row(c[1]).vix > 0

\* What the code does instead: with volatility 0 the pricer returns 0 for a
\* put bought out of the money, the position is entered at no cost, and a
\* later mark at volatility 0 is recorded and sold on a threshold exit.
C21_Priced ==
  \E e, t \in Rows :
    /\ IsEntry(e) /\ Row(e).vix = 0 /\ Row(e).option_cost = 0
    /\ Row(t).option_start_idx = e /\ Row(t).vix = 0
    /\ Row(t).exit_type = "threshold_exit"
    /\ Row(t).option_price > 0
    /\ Row(t).cash_balance = PrevCashOf(t) + Row(t).option_price

\* -------------------------------------------------------------------- C22

\* The configuration is outside its sane bounds.
BadConfig == args.strike_pct >= 100 \/ args.threshold \notin 0..100

\* C22: a configuration with strike_pct >= 1 or a threshold outside its
\* bounds is rejected when the backtest is set up: no day is processed and
\* no position is opened.
C22_BadConfigRejected ==
  BadConfig => strategy = <<>> /\ ~active_option /\ pc # "done"

\* What the code does instead: with strike_pct = 1.0 it buys a put struck at
\* the spot, and the run ends with a full ledger.
C22_Accepted ==
  /\ BadConfig
  /\ pc = "done"
  /\ Len(strategy) = num_days
  /\ \E t \in Rows : IsEntry(t) /\ Row(t).strike_price = Row(t).spy_price

\* -------------------------------------------------------------------- C23

\* The series of balances has a positive sample standard deviation of daily
\* returns: at least two days, and not every day's balance equal to the one
\* before.
Varies(balance(_)) ==
  /\ num_days >= 2
  /\ \E t \in Rows : t >= 1 /\ balance(t) # balance(t - 1)

strategy_balance(t) == Row(t).strategy_balance
benchmark_balance(t) == Row(t).benchmark_balance

\* The Sharpe ratio of one series is its total return over its annualized
\* volatility when that is positive, and 0 otherwise.
SharpeAgrees(balance(_), total_return, sharpe) ==
  /\ sharpe.value \in {"quotient", "zero"}
  /\ Varies(balance) => sharpe.value = "quotient" /\ sharpe.of = total_return
  /\ ~Varies(balance) => sharpe.value = "zero"

\* C23: for both series the Sharpe ratio is total_return / annualized
\* volatility when the volatility is positive and 0 when it is 0 or undefined
\* (a constant balance series, a one-day run); the summary never holds an
\* infinite or undefined ratio from a division by zero.
C23_SharpeGuarded ==
  pc = "done" =>
    /\ SharpeAgrees(strategy_balance, Row(num_days - 1).cum_strategy_return,
                    summary.strategy_sharpe)
    /\ SharpeAgrees(benchmark_balance, Row(num_days - 1).cum_benchmark_return,
                    summary.benchmark_sharpe)

\* A finished run of several days at one price, so the benchmark's volatility
\* is 0 and its Sharpe ratio 0, while the marks of a position make the
\* strategy's balance vary.
C23_Witness ==
  /\ pc = "done"
  /\ num_days >= 3
  /\ summary.benchmark_volatility = "zero"
  /\ summary.benchmark_sharpe.value = "zero"
  /\ summary.strategy_volatility = "positive"
  /\ summary.strategy_sharpe.value = "quotient"
  /\ summary.strategy_sharpe.of.num # 0

\* -------------------------------------------------------------------- C24

\* Row t is the expiry of a position that was held into day t-1, the spot
\* fell 20% on day t-1, and on day t the spot is still below the strike.
CrashBeforeExpiry(t) ==
  /\ Row(t).exit_type = "expiry"
  /\ Row(t).option_start_idx <= t - 2
  /\ Row(t - 1).spy_price * 100 = Row(t - 2).spy_price * 80
  /\ Row(t).spy_price < Row(t).strike_price

\* option_balance + cash_balance of row t: what the options have added to
\* the stock balance.
Overlay(t) == Row(t).option_balance + Row(t).cash_balance

\* C24 as stated: when a position struck at 0.95 times its entry spot is held
\* through a 20% fall of the spot on the day before its expiry and the spot is
\* still below the strike at expiry, the expiry payoff is positive and on
\* that day the strategy's drawdown is smaller in magnitude than the
\* benchmark's.
C24_CrashCushion ==
  pc = "done" =>
    \A t \in Rows :
      CrashBeforeExpiry(t) =>
        /\ Row(t).option_price > 0
        /\ Row(t).strategy_drawdown.num > Row(t).benchmark_drawdown.num

\* C24 as the code has it: in that scenario the expiry payoff strike - spot is
\* positive and is added to the cash, which then is the cash before the entry
\* less the premium plus the payoff; the benchmark is in drawdown; and the
\* strategy's drawdown is the smaller one in magnitude whenever the options'
\* overlay on that day exceeds the overlay of every earlier day.  A premium
\* above the payoff breaks that condition, and then the strategy's drawdown
\* can be the larger one.
C24_CrashCushionAmended ==
  pc = "done" =>
    \A t \in Rows :
      CrashBeforeExpiry(t) =>
        LET e == Row(t).option_start_idx
        IN /\ Row(t).strike_price = (Row(e).spy_price * 95) \div 100
           /\ Row(t).option_price = Row(t).strike_price - Row(t).spy_price
           /\ Row(t).option_price > 0
           /\ Row(t).cash_balance =
                PrevCashOf(e) - Row(e).option_cost + Row(t).option_price
           /\ Row(t).benchmark_drawdown.num < 0
           /\ (\A u \in 0..(t - 1) : Overlay(t) > Overlay(u)) =>
                Row(t).strategy_drawdown.num > Row(t).benchmark_drawdown.num

\* A finished run with such an expiry whose overlay exceeds that of every
\* earlier day, the strategy being in a drawdown smaller than the benchmark's.
C24_Witness ==
  /\ pc = "done"
  /\ \E t \in Rows :
       /\ CrashBeforeExpiry(t)
       /\ \A u \in 0..(t - 1) : Overlay(t) > Overlay(u)
       /\ Row(t).strategy_drawdown.num < 0
       /\ Row(t).strategy_drawdown.num > Row(t).benchmark_drawdown.num

\* --------------------------------------------------------------------- C25
\* C25: for a fixed strike, a fixed time to expiry T > 0 and the fixed rate,
\* the price the pricer returns does not rise when the spot rises (same
\* volatility) and does not fall when the volatility rises (same spot).
C25_PutMonotone ==
  \A m, n \in 1..Len(quotes) :
    LET a == quotes[m]
        b == quotes[n]
    IN SameContract(a, b) =>
         /\ (a.vix = b.vix /\ a.S <= b.S) => a.price >= b.price
         /\ (a.S = b.S /\ a.vix <= b.vix) => a.price <= b.price

\* Two quotes of one contract at one volatility whose spots differ and whose
\* prices differ, and two at one spot whose volatilities and prices differ.
C25_Witness ==
  /\ \E m, n \in 1..Len(quotes) :
       /\ SameContract(quotes[m], quotes[n])
       /\ quotes[m].vix = quotes[n].vix
       /\ quotes[m].S < quotes[n].S
       /\ quotes[m].price > quotes[n].price
       /\ quotes[n].price > 0
  /\ \E m, n \in 1..Len(quotes) :
       /\ SameContract(quotes[m], quotes[n])
       /\ quotes[m].S = quotes[n].S
       /\ quotes[m].vix < quotes[n].vix
       /\ quotes[m].price < quotes[n].price
       /\ quotes[m].price > 0

\* --------------------------------------------------------------------- C26
\* C26: opening a position is balance-neutral on the entry day: on every
\* entry day t the option balance and the cash balance add up to the cash of
\* day t-1 (0 for t = 0), so the strategy balance less the stock balance is
\* the cash carried in, and the premium paid leaves the strategy balance as
\* it would be without the purchase.
C26_EntryBalanceNeutral ==
  \A t \in Rows :
    IsEntry(t) =>
      /\ Row(t).option_balance + Row(t).cash_balance = PrevCashOf(t)
      /\ pc = "done" =>
           /\ Row(t).strategy_balance - Row(t).stock_balance = PrevCashOf(t)
           /\ Row(t).strategy_balance = Row(t).stock_balance + PrevCashOf(t)

\* A position bought at a positive premium on a day that carries in cash
\* other than 0 from an earlier position.
C26_Witness ==
  /\ pc = "done"
  /\ \E t \in Rows :
       /\ IsEntry(t)
       /\ t > 0
       /\ Row(t).option_cost > 0
       /\ PrevCashOf(t) # 0
       /\ Row(t).cash_balance = PrevCashOf(t) - Row(t).option_cost

\* --------------------------------------------------------------------- C27
\* A position is active going into day u: row u, once written, is flagged
\* without being an entry row; before that the loop's flag says so.
ActiveInto(u) ==
  IF u < Len(strategy)
  THEN Row(u).has_active_option /\ ~IsEntry(u)
  ELSE active_option

EntriesUpTo(t) == Cardinality({ e \in 0..t : IsEntry(e) })

ExitsUpTo(t) == Cardinality({ x \in 0..t : IsExit(x) })

\* C27: entries and exits alternate: for every day t the entry days in 0..t
\* less the exit rows in 0..t number 0 or 1, and 1 exactly when a position is
\* active going into day t+1; so at the end of the run the positions opened
\* are the expiry exits plus the threshold exits plus 1 if a position is
\* still open.
C27_EntriesExitsAlternate ==
  /\ \A t \in Rows :
       /\ EntriesUpTo(t) - ExitsUpTo(t) \in {0, 1}
       /\ EntriesUpTo(t) - ExitsUpTo(t) = 1 <=> ActiveInto(t + 1)
  /\ pc = "done" =>
       summary.option_entries =
         summary.expiry_exits + summary.threshold_exits
           + (IF active_option THEN 1 ELSE 0)

\* A finished run with two positions opened, the first closed by the
\* threshold or at expiry and the second still open after the last day.
C27_Witness ==
  /\ pc = "done"
  /\ summary.option_entries = 2
  /\ summary.expiry_exits + summary.threshold_exits = 1
  /\ active_option
  /\ EntriesUpTo(num_days - 1) = 2
  /\ \E t \in Rows : IsExit(t) /\ EntriesUpTo(t) = ExitsUpTo(t)

\* --------------------------------------------------------------------- C28
\* C28: for every option_expiry_days >= 0 the function accepts, a position
\* never outlives its expiry: no day t starts with a position active whose
\* expiry index is less than t.
C28_NeverOutlivesExpiry ==
  \A t \in Rows : ActiveInto(t) => t <= Row(t).option_expiry_idx

\* The same for the tenors of at least one day, for which it does hold.
C28_WithinPositiveTenor ==
  option_expiry_days >= 1 => C28_NeverOutlivesExpiry

\* With option_expiry_days = 0 a position opened on day e is still active on
\* every later day, and no later day opens another although the signal is on.
C28_StuckOpen ==
  /\ pc = "done"
  /\ option_expiry_days = 0
  /\ \E e \in Rows :
       /\ IsEntry(e)
       /\ e < num_days - 1
       /\ \A t \in (e + 1)..(num_days - 1) :
            /\ ActiveInto(t)
            /\ Row(t).option_expiry_idx = e
            /\ Row(t).exit_type = ""
       /\ \E t \in (e + 1)..(num_days - 1) : Row(t).signal = 1
       /\ active_option

\* --------------------------------------------------------------------- C29
\* The crash probability is at or above the threshold on every day.
AlwaysSignalled ==
  \A k \in 1..Len(model_probs) : model_probs[k] >= args.threshold

\* C29: if the crash probability is at or above the threshold on every day
\* and option_expiry_days = d >= 1, no threshold exit occurs, positions are
\* opened exactly on the indices k(d+1) and expire exactly on the indices
\* k(d+1)+d, and each expiry row holds no option (option_balance 0, no
\* position opened) although its signal is on.
C29_PeriodicRoll ==
  (AlwaysSignalled /\ option_expiry_days >= 1) =>
    \A t \in Rows :
      /\ Row(t).exit_type # "threshold_exit"
      /\ IsEntry(t) <=> t % (option_expiry_days + 1) = 0
      /\ Row(t).exit_type = "expiry" <=>
            t % (option_expiry_days + 1) = option_expiry_days
      /\ Row(t).exit_type = "expiry" =>
            /\ Row(t).option_balance = 0
            /\ ~IsEntry(t)
            /\ Row(t).signal = 1
            /\ ActiveInto(t + 1) = FALSE

\* A finished run signalled on every day that rolled two positions: entries
\* on days 0 and d+1, expiries on days d and 2d+1.
C29_Witness ==
  /\ pc = "done"
  /\ AlwaysSignalled
  /\ option_expiry_days >= 1
  /\ num_days = 2 * (option_expiry_days + 1)
  /\ { t \in Rows : IsEntry(t) } = {0, option_expiry_days + 1}
  /\ { t \in Rows : Row(t).exit_type = "expiry" } =
       {option_expiry_days, 2 * option_expiry_days + 1}
  /\ \E t \in Rows : Row(t).exit_type = "expiry" /\ Row(t).option_price > 0

\* --------------------------------------------------------------------- C30
\* C30: every row with exit_type expiry or threshold_exit is flagged
\* has_active_option, has option_balance 0 and an index greater than the
\* entry index of the position it closes (no position is closed on the day
\* it is opened); every entry row has an empty exit_type.
C30_ExitRows ==
  \A t \in Rows :
    /\ IsExit(t) =>
         /\ Row(t).has_active_option
         /\ Row(t).option_balance = 0
         /\ Row(t).option_start_idx \in 0..(t - 1)
         /\ IsEntry(Row(t).option_start_idx)
    /\ IsEntry(t) => Row(t).exit_type = ""

\* A finished run with two exit rows, the later one a threshold exit, each
\* after the entry row of its position, the second position opened after the
\* first was closed.
C30_Witness ==
  /\ pc = "done"
  /\ \E x, y \in Rows :
       /\ IsExit(x)
       /\ Row(y).exit_type = "threshold_exit"
       /\ Row(x).option_start_idx < x
       /\ x < Row(y).option_start_idx
       /\ Row(y).option_start_idx < y
       /\ Row(y).has_active_option
       /\ Row(y).option_price > 0
       /\ Row(Row(x).option_start_idx).exit_type = ""
       /\ Row(Row(y).option_start_idx).exit_type = ""

\* -------------------------------------------------------------------- Next

Next ==
  \/ ThresholdExit
  \/ Expiry
  \/ Hold
  \/ Open
  \/ NoOp
  \/ CalcReturns

Spec == Init /\ [][Next]_vars

\* The function called, and then called a second time on the same arguments.
NextTwice ==
  \/ Next
  \/ CallAgain

\* The calls that are repeated: those on a series one day shorter than the
\* longest.
InitTwice == Init /\ Len(model_probs) <= MaxDays - 1

SpecTwice == InitTwice /\ [][NextTwice]_vars

\* The function called on a series with very high volatilities.
SpecHighVol == InitHighVol /\ [][Next]_vars

\* The function called with arguments outside their sane bounds.
SpecBadConfig == InitBadConfig /\ [][Next]_vars

\* The function called on a series of zero volatilities.
SpecZeroVol == InitZeroVol /\ [][Next]_vars

\* The function called on a series with an invalid probability.
SpecInvalid == InitInvalid /\ [][Next]_vars

\* The pricer called on its own.
NextPricer == Quote

SpecPricer == InitPricer /\ [][NextPricer]_vars

====
